---- MODULE Spec2Model ----
(***************************************************************************)
(* The assessment lifecycle of the ADITI backend (server.js): the          *)
(* Assessment / Message / Document tables behind the express handlers,     *)
(* each handler cut at its awaits, and the dynamic question generator.     *)
(***************************************************************************)
EXTENDS Integers, Sequences, FiniteSets, TLC

(* ------------------------------ bounds -------------------------------- *)

\* Rows the Assessment table may hold.
MaxAssessments == 2
\* Rows the Message table may hold.
MaxMessages == 2
\* Rows the Document table may hold.
MaxDocuments == 1

\* The registered customers (rows of the Customer table).
Customers == {1, 2}
\* customerId values a request may carry: the registered ones and one that
\* references no row.
CustomerIdInputs == Customers \cup {3}
\* Scores a request may carry: the band edges, a negative score and one far
\* above the questionnaire's range.
AllScores == {-50, 499, 500, 699, 700, 100000}
\* One score of each band, for the runs that are not about the thresholds.
BandScores == {499, 500, 700}
\* Assessment ids a request may carry; the last one never exists.
AssessmentIdInputs == 1..(MaxAssessments + 1)
\* Assessment ids a thread request may carry: the two seeded assessments and
\* one that does not exist.
ThreadIdInputs == {1, 2, 3}
\* The statuses a reviewer sends.
StatusInputs == {"Approved", "Manual Review", "Rejected"}
\* req.body.docType of an upload (absent, or a type).
Undefined == "undefined"
DocTypeInputs == {Undefined, "pan"}
\* req.file.originalname of an upload.
FileNames == {"a.pdf"}
\* sender and text of a posted message.
SenderInputs == {"Customer"}
TextInputs == {"hello"}

\* Pieces of raw text the completion service may return.
MaxTextLen == 4
\* The pieces: the two brackets, a stretch of prose (or of anything that is
\* not JSON), and whole JSON values an array may hold, each followed by its
\* comma where one is due: question objects with an id, without one and with
\* a repeated one, a number, and null.
ObjectTokens == {"{id:a,q1}", "{q2}", "{id:a,q3}"}
ValueTokens == ObjectTokens \cup {"7", "null"}
Tokens == {"[", "]", "prose"} \cup ValueTokens
Texts == UNION {[1..n -> Tokens] : n \in 0..MaxTextLen}

VARIABLES
    assessments,   \* the Assessment table, in id (SERIAL) order
    messages,      \* the Message table, in id order
    documents,     \* the Document table, in id order
    lastAccessed,  \* Customer.lastAccessed per customer (0: never set)
    inflight,      \* handlers suspended at the await between their two writes
    last,          \* the latest handler step and the response it sent
                   \* (status 0: suspended, nothing sent yet)
    reply,         \* what model.generateContent gave the running or latest
                   \* generate-questions call: raw text, or the error thrown
    questions      \* the JSON array generate-questions sent with its 200

vars == <<assessments, messages, documents, lastAccessed, inflight, last,
          reply, questions>>

(* ------------------------------ helpers ------------------------------- *)

Ids(table) == 1..Len(table)

Range(s) == {s[i] : i \in DOMAIN s}

SetMax(S) == CHOOSE x \in S : \A y \in S : y <= x

\* The latest timestamp the store holds.
LastTs ==
    SetMax({0} \cup {assessments[i].createdAt : i \in Ids(assessments)}
               \cup {messages[i].createdAt : i \in Ids(messages)}
               \cup {lastAccessed[c] : c \in Customers})

\* What the millisecond clock (new Date(), CURRENT_TIMESTAMP) may read at a
\* write: the same millisecond as the latest write, or a later one.
Clock == {t \in {LastTs, LastTs + 1} : t >= 1}

\* A handler step: the operation, the HTTP status sent (0: none yet), the id
\* the request named (0: none), whether it carried a file, its string
\* arguments, the ids of the rows in the response body, in order, and the ids
\* of the messages embedded in the body's assessment, in order.
Step(op, status, id, file, arg, body) ==
    [op |-> op, status |-> status, id |-> id, file |-> file, arg |-> arg,
     body |-> body, included |-> <<>>]

Response(op, status, id, file, body) == Step(op, status, id, file, <<>>, body)

\* Every order in which an unordered scan may deliver the rows S.
HeapOrders(S) == {h \in [1..Cardinality(S) -> S] : Range(h) = S}

RECURSIVE InsertByCreatedAt(_, _, _)
\* row put into the sorted sequence, after the rows it does not precede.
InsertByCreatedAt(row, sorted, dir) ==
    IF sorted = <<>> THEN <<row>>
    ELSE IF (dir = "asc" /\ row.createdAt < Head(sorted).createdAt)
            \/ (dir = "desc" /\ row.createdAt > Head(sorted).createdAt)
         THEN <<row>> \o sorted
         ELSE <<Head(sorted)>> \o InsertByCreatedAt(row, Tail(sorted), dir)

RECURSIVE OrderByCreatedAt(_, _)
\* orderBy: { createdAt: dir } over the rows as the scan delivered them; rows
\* of equal createdAt stay in the scan's order.
OrderByCreatedAt(rows, dir) ==
    IF rows = <<>> THEN <<>>
    ELSE InsertByCreatedAt(rows[Len(rows)],
                           OrderByCreatedAt(SubSeq(rows, 1, Len(rows) - 1), dir),
                           dir)

RowIds(rows) == [i \in DOMAIN rows |-> rows[i].id]

(* ----------------------- scoring and decision ------------------------- *)

ApprovedMin == 700
ReviewMin == 500

DecideStrict(score) ==
    IF score > ApprovedMin THEN "Approved"
    ELSE IF score > ReviewMin THEN "Manual Review"
    ELSE "Rejected"

\* let status; if (score >= 700) ... else if (score >= 500) ... else ...
Decide(score) ==
    IF score >= ApprovedMin THEN "Approved"
    ELSE IF score >= ReviewMin THEN "Manual Review"
    ELSE "Rejected"

(* ------------------------------ submit -------------------------------- *)

\* POST /api/assessment/submit up to its first await: prisma.assessment.create.
\* The create throws on a customerId that references no Customer row
\* (Assessment_customerId_fkey) and on a storage failure; the catch answers 500.
SubmitCreate(customerId, score) ==
    \/ /\ customerId \notin Customers
       /\ last' = Response("submit", 500, customerId, FALSE, <<>>)
       /\ UNCHANGED <<reply, questions, assessments, messages, documents, lastAccessed, inflight>>
    \/ /\ customerId \in Customers
       /\ last' = Response("submit", 500, customerId, FALSE, <<>>)
       /\ UNCHANGED <<reply, questions, assessments, messages, documents, lastAccessed, inflight>>
    \/ /\ customerId \in Customers
       /\ Len(assessments) < MaxAssessments
       /\ \E now \in Clock :
            assessments' = Append(assessments,
                [id |-> Len(assessments) + 1, customerId |-> customerId,
                 score |-> score, status |-> Decide(score), createdAt |-> now])
       /\ inflight' = inflight \cup
            {[op |-> "submit", id |-> Len(assessments) + 1,
              before |-> lastAccessed[customerId]]}
       /\ last' = Response("submit", 0, customerId, FALSE, <<>>)
       /\ UNCHANGED <<reply, questions, messages, documents, lastAccessed>>

\* The rest of the handler: prisma.customer.update({lastAccessed: new Date()}),
\* then 201 with the new assessment; the catch answers 500 when the update throws.
SubmitTouch(r) ==
    /\ r \in inflight
    /\ r.op = "submit"
    /\ inflight' = inflight \ {r}
    /\ LET c == assessments[r.id].customerId IN
        \/ /\ \E now \in Clock : lastAccessed' = [lastAccessed EXCEPT ![c] = now]
           /\ last' = Response("submit", 201, c, FALSE, <<r.id>>)
        \/ /\ last' = Response("submit", 500, c, FALSE, <<>>)
           /\ UNCHANGED lastAccessed
    /\ UNCHANGED <<reply, questions, assessments, messages, documents>>

(* ----------------------- reads and status update --------------------- *)

\* where: { customerId: Number(id) }
LatestFilter(customerId) ==
    {a \in Range(assessments) : a.customerId = customerId}

\* prisma.assessment.findFirst({ where, orderBy: { createdAt: 'desc' } }): the
\* bodies it may produce, one per order in which the scan delivers rows of
\* equal createdAt; null (an empty body here) when the customer has none.
LatestResults(customerId) ==
    {LET sorted == OrderByCreatedAt(heap, "desc") IN
        IF sorted = <<>> THEN <<>> ELSE <<sorted[1].id>> :
     heap \in HeapOrders(LatestFilter(customerId))}

\* include: { messages: true }: the messages of the assessment in the body,
\* fetched with no orderBy, so in whatever order the scan delivers them.
IncludeMessages(body) ==
    IF body = <<>> THEN {<<>>}
    ELSE {RowIds(heap) :
            heap \in HeapOrders({m \in Range(messages) : m.assessmentId = body[1]})}

\* GET /api/customer/:id/latest-assessment
GetLatest(customerId) ==
    /\ \E body \in LatestResults(customerId) :
         \E included \in IncludeMessages(body) :
            last' = [Response("getLatest", 200, customerId, FALSE, body)
                        EXCEPT !.included = included]
    /\ UNCHANGED <<reply, questions, assessments, messages, documents, lastAccessed, inflight>>

\* POST /api/login: prisma.customer.findUnique by email with the customer's
\* assessments ordered by createdAt desc, take 1, messages included; 401 when
\* no customer has the email or bcrypt.compare fails, else 200 with
\* assessments[0] || null. customerId is the customer the email names.
Login(customerId, isMatch) ==
    /\ \/ /\ customerId \notin Customers
          /\ last' = Response("login", 401, customerId, FALSE, <<>>)
       \/ /\ customerId \in Customers
          /\ ~isMatch
          /\ last' = Response("login", 401, customerId, FALSE, <<>>)
       \/ /\ customerId \in Customers
          /\ isMatch
          /\ \E body \in LatestResults(customerId) :
               \E included \in IncludeMessages(body) :
                  last' = [Response("login", 200, customerId, FALSE, body)
                              EXCEPT !.included = included]
    /\ UNCHANGED <<reply, questions, assessments, messages, documents, lastAccessed, inflight>>

\* PATCH /api/assessments/:id/status: prisma.assessment.update; it throws when
\* no row has the id or the storage fails, and the catch answers 500.
UpdateStatus(id, status) ==
    \/ /\ id \in Ids(assessments)
       /\ assessments' = [assessments EXCEPT ![id].status = status]
       /\ last' = Step("updateStatus", 200, id, FALSE, <<status>>, <<id>>)
       /\ UNCHANGED <<reply, questions, messages, documents, lastAccessed, inflight>>
    \/ /\ last' = Step("updateStatus", 500, id, FALSE, <<status>>, <<>>)
       /\ UNCHANGED <<reply, questions, assessments, messages, documents, lastAccessed, inflight>>

(* --------------------------- follow-up thread ------------------------- *)

\* Uploads suspended before their System message: each still writes a row.
PendingUploads == {r \in inflight : r.op = "upload"}

MessageRoom == Len(messages) + Cardinality(PendingUploads) < MaxMessages

\* JSON.stringify({ type: 'document_request', docTypes })
RequestText(docTypes) == <<"document_request">> \o docTypes

\* `Customer uploaded a document: "${originalname}" (${docType || 'unspecified type'}).`
UploadText(originalname, docType) ==
    <<"Customer uploaded a document", originalname,
      IF docType = Undefined THEN "unspecified type" ELSE docType>>

\* prisma.message.create under Message_assessmentId_fkey.
NewMessage(assessmentId, sender, text, now) ==
    [id |-> Len(messages) + 1, assessmentId |-> assessmentId, sender |-> sender,
     text |-> text, createdAt |-> now]

RequestDocsMarksPending(id, docTypes) ==
    \/ /\ id \in Ids(assessments)
       /\ MessageRoom
       /\ \E now \in Clock :
            messages' = Append(messages,
                NewMessage(id, "Bank Manager", RequestText(docTypes), now))
       /\ assessments' = [assessments EXCEPT ![id].status = "Pending"]
       /\ last' = Step("requestDocs", 201, id, FALSE, docTypes, <<Len(messages) + 1>>)
       /\ UNCHANGED <<reply, questions, documents, lastAccessed, inflight>>
    \/ /\ last' = Step("requestDocs", 500, id, FALSE, docTypes, <<>>)
       /\ UNCHANGED <<reply, questions, assessments, messages, documents, lastAccessed, inflight>>

\* POST /api/assessments/:id/request-docs
RequestDocs(id, docTypes) ==
    \/ /\ id \in Ids(assessments)
       /\ MessageRoom
       /\ \E now \in Clock :
            messages' = Append(messages,
                NewMessage(id, "Bank Manager", RequestText(docTypes), now))
       /\ last' = Step("requestDocs", 201, id, FALSE, docTypes, <<Len(messages) + 1>>)
       /\ UNCHANGED <<reply, questions, assessments, documents, lastAccessed, inflight>>
    \/ /\ last' = Step("requestDocs", 500, id, FALSE, docTypes, <<>>)
       /\ UNCHANGED <<reply, questions, assessments, messages, documents, lastAccessed, inflight>>

\* POST /api/assessments/:id/message
PostMessage(id, sender, text) ==
    \/ /\ id \in Ids(assessments)
       /\ MessageRoom
       /\ \E now \in Clock :
            messages' = Append(messages, NewMessage(id, sender, <<text>>, now))
       /\ last' = Step("postMessage", 201, id, FALSE, <<sender, text>>, <<Len(messages) + 1>>)
       /\ UNCHANGED <<reply, questions, assessments, documents, lastAccessed, inflight>>
    \/ /\ last' = Step("postMessage", 500, id, FALSE, <<sender, text>>, <<>>)
       /\ UNCHANGED <<reply, questions, assessments, messages, documents, lastAccessed, inflight>>

UploadInvalidFileOnly(file, assessmentId) == ~file

\* if (!req.file || !assessmentId)
UploadInvalid(file, assessmentId) == ~file \/ assessmentId = 0

\* POST /api/documents/upload up to its first await: the validation, then
\* prisma.document.create (Document_assessmentId_fkey).
UploadCreate(file, assessmentId, originalname, docType) ==
    \/ /\ UploadInvalid(file, assessmentId)
       /\ last' = Response("upload", 400, assessmentId, file, <<>>)
       /\ UNCHANGED <<reply, questions, assessments, messages, documents, lastAccessed, inflight>>
    \/ /\ ~UploadInvalid(file, assessmentId)
       /\ last' = Response("upload", 500, assessmentId, file, <<>>)
       /\ UNCHANGED <<reply, questions, assessments, messages, documents, lastAccessed, inflight>>
    \/ /\ ~UploadInvalid(file, assessmentId)
       /\ assessmentId \in Ids(assessments)
       /\ Len(documents) < MaxDocuments
       /\ MessageRoom
       /\ documents' = Append(documents,
                [id |-> Len(documents) + 1, assessmentId |-> assessmentId,
                 originalName |-> originalname, docType |-> docType])
       /\ inflight' = inflight \cup
            {[op |-> "upload", id |-> Len(documents) + 1, before |-> 0]}
       /\ last' = Response("upload", 0, assessmentId, file, <<>>)
       /\ UNCHANGED <<reply, questions, assessments, messages, lastAccessed>>

\* The rest of the handler: the System message, then 201 with the document;
\* the catch answers 500 when the message's create throws.
UploadMessage(r) ==
    /\ r \in inflight
    /\ r.op = "upload"
    /\ inflight' = inflight \ {r}
    /\ LET d == documents[r.id] IN
        \/ /\ \E now \in Clock :
                messages' = Append(messages,
                    NewMessage(d.assessmentId, "System",
                               UploadText(d.originalName, d.docType), now))
           /\ last' = Response("upload", 201, d.assessmentId, TRUE, <<r.id>>)
        \/ /\ last' = Response("upload", 500, d.assessmentId, TRUE, <<>>)
           /\ UNCHANGED messages
    /\ UNCHANGED <<reply, questions, assessments, documents, lastAccessed>>

\* where: { assessmentId: Number(id) }
MessagesFilter(id) == {m \in Range(messages) : m.assessmentId = id}

MessagesDirDesc == "desc"

\* orderBy: { createdAt: 'asc' }
MessagesDir == "asc"

\* GET /api/assessments/:id/messages
GetMessages(id) ==
    /\ \E heap \in HeapOrders(MessagesFilter(id)) :
         last' = Response("getMessages", 200, id, FALSE,
                          RowIds(OrderByCreatedAt(heap, MessagesDir)))
    /\ UNCHANGED <<reply, questions, assessments, messages, documents, lastAccessed, inflight>>

(* ------------------------ dynamic questions --------------------------- *)

NoReply == [kind |-> "none", text |-> <<>>, status |-> 0, mentions429 |-> FALSE]

\* An error object: its status property and whether its text holds "429".
Error(status, mentions429) ==
    [kind |-> "error", text |-> <<>>, status |-> status,
     mentions429 |-> mentions429]

NoId == ""

Item(kind, id, question) == [kind |-> kind, id |-> id, question |-> question]

\* The JSON value a value token stands for.
ValueOf(tok) ==
    CASE tok = "{id:a,q1}" -> Item("object", "a", "q1")
      [] tok = "{q2}"      -> Item("object", NoId, "q2")
      [] tok = "{id:a,q3}" -> Item("object", "a", "q3")
      [] tok = "7"         -> Item("number", NoId, "")
      [] tok = "null"      -> Item("null", NoId, "")

\* text.indexOf(tok): 0-based, -1 when absent.
IndexOf(text, tok) ==
    IF \E i \in DOMAIN text : text[i] = tok
    THEN (CHOOSE i \in DOMAIN text :
            text[i] = tok /\ \A j \in 1..(i - 1) : text[j] # tok) - 1
    ELSE -1

\* text.lastIndexOf(tok)
LastIndexOf(text, tok) ==
    IF \E i \in DOMAIN text : text[i] = tok
    THEN (CHOOSE i \in DOMAIN text :
            text[i] = tok /\ \A j \in (i + 1)..Len(text) : text[j] # tok) - 1
    ELSE -1

\* text.substring(start, end): the two indices swapped when start > end.
Substring(text, start, end) ==
    LET lo == IF start < end THEN start ELSE end
        hi == IF start < end THEN end ELSE start
    IN SubSeq(text, lo + 1, hi)

RECURSIVE ParseElements(_, _, _, _)
\* The elements of the outermost array of toks, read from position i at
\* nesting depth `depth`: ok is FALSE when the array is not well formed
\* (prose inside, a bracket left open, text after the closing bracket).
ParseElements(toks, i, depth, acc) ==
    IF i > Len(toks) THEN [ok |-> FALSE, items |-> <<>>]
    ELSE IF toks[i] = "prose" THEN [ok |-> FALSE, items |-> <<>>]
    ELSE IF toks[i] = "[" THEN
        ParseElements(toks, i + 1, depth + 1,
            IF depth = 1 THEN Append(acc, Item("array", NoId, "")) ELSE acc)
    ELSE IF toks[i] = "]" THEN
        IF depth = 1
        THEN [ok |-> i = Len(toks), items |-> IF i = Len(toks) THEN acc ELSE <<>>]
        ELSE ParseElements(toks, i + 1, depth - 1, acc)
    ELSE ParseElements(toks, i + 1, depth,
            IF depth = 1 THEN Append(acc, ValueOf(toks[i])) ELSE acc)

\* JSON.parse(cleanedText): an array with its elements, another JSON value, or
\* a SyntaxError.
JsonParse(toks) ==
    IF toks # <<>> /\ toks[1] = "["
    THEN LET p == ParseElements(toks, 2, 1, <<>>) IN
         [kind |-> IF p.ok THEN "array" ELSE "SyntaxError", items |-> p.items]
    ELSE IF Len(toks) = 1 /\ toks[1] \in ValueTokens
    THEN [kind |-> "value", items |-> <<>>]
    ELSE [kind |-> "SyntaxError", items |-> <<>>]

\* `dynamic_question_${index + 1}`
QuestionId(index) == "dynamic_question_" \o ToString(index + 1)

\* jsonResponse.forEach((q, index) => { q.id = ... }) as res.json then sends
\* it: an object gets the id; the assignment to a number is dropped (the file
\* is not in strict mode); the property set on a nested array is not part of
\* its JSON. (The assignment to null throws: see GenerateFinish.)
Renumber(items) ==
    [i \in DOMAIN items |->
        IF items[i].kind = "object"
        THEN [items[i] EXCEPT !.id = QuestionId(i - 1)]
        ELSE items[i]]

\* handleGeminiError: 429 when error.status === 429 or the error's text
\* includes '429', 500 otherwise.
HandleGeminiError(error) ==
    IF error.status = 429 \/ error.mentions429 THEN 429 ELSE 500

\* What the awaits of model.generateContent and result.response may hand the
\* handler: some text, or a thrown error (a 429 of the service, or another
\* failure, whose text may or may not hold "429").
Replies ==
    {[kind |-> "text", text |-> text, status |-> 0, mentions429 |-> FALSE] :
        text \in Texts}
    \cup {Error(429, FALSE)}
    \cup {Error(503, m) : m \in BOOLEAN}

\* const cleanedText = text.substring(jsonStart, jsonEnd + 1)
CleanedText(text) ==
    Substring(text, IndexOf(text, "["), LastIndexOf(text, "]") + 1)

\* POST /api/generate-questions from the service's reply on: the bracket
\* search, JSON.parse, the renumbering and res.json; every throw goes to
\* handleGeminiError. A step that got as far as JSON.parse records the text
\* it handed to the parser as its argument. The SyntaxError of JSON.parse
\* quotes the text or the position it stopped at, so its message may or may
\* not hold "429" when the text has more in it than brackets; on the empty
\* text it is "Unexpected end of JSON input".
GenerateFinish ==
    /\ last.op = "generate" /\ last.status = 0
    /\ LET text == reply.text
           jsonStart == IndexOf(text, "[")
           jsonEnd == LastIndexOf(text, "]")
           cleanedText == CleanedText(text)
           parsed == JsonParse(cleanedText)
           Fail(error, arg) ==
               /\ last' = Step("generate", HandleGeminiError(error), 0, FALSE,
                               arg, <<>>)
               /\ questions' = <<>>
       IN
        \/ /\ reply.kind = "error"
           /\ Fail(reply, <<>>)
        \/ /\ reply.kind = "text"
           /\ jsonStart = -1 \/ jsonEnd = -1
           /\ Fail(Error(0, FALSE), <<>>)
        \/ /\ reply.kind = "text"
           /\ jsonStart # -1 /\ jsonEnd # -1
           /\ parsed.kind = "SyntaxError"
           /\ \E m \in (IF Range(cleanedText) \subseteq {"[", "]"}
                        THEN {FALSE} ELSE BOOLEAN) :
                 Fail(Error(0, m), cleanedText)
        \/ /\ reply.kind = "text"
           /\ jsonStart # -1 /\ jsonEnd # -1
           /\ \/ parsed.kind = "value"
              \/ /\ parsed.kind = "array"
                 /\ \E i \in DOMAIN parsed.items : parsed.items[i].kind = "null"
           /\ Fail(Error(0, FALSE), cleanedText)
        \/ /\ reply.kind = "text"
           /\ jsonStart # -1 /\ jsonEnd # -1
           /\ parsed.kind = "array"
           /\ \A i \in DOMAIN parsed.items : parsed.items[i].kind # "null"
           /\ questions' = Renumber(parsed.items)
           /\ last' = Step("generate", 200, 0, FALSE, cleanedText, <<>>)
    /\ UNCHANGED <<assessments, messages, documents, lastAccessed, inflight, reply>>

(* --------------------------- specifications --------------------------- *)

\* const prisma = new PrismaClient(): the store as the server finds it, with
\* the customers registered and nothing submitted yet.
Init ==
    /\ assessments = <<>>
    /\ messages = <<>>
    /\ documents = <<>>
    /\ lastAccessed = [c \in Customers |-> 0]
    /\ inflight = {}
    /\ last = Response("none", 0, 0, FALSE, <<>>)
    /\ reply = NoReply
    /\ questions = <<>>

\* The assessment store: submit, latest-assessment and status update.
Next ==
    \/ \E c \in CustomerIdInputs, s \in BandScores : SubmitCreate(c, s)
    \/ \E r \in inflight : SubmitTouch(r)
    \/ \E c \in CustomerIdInputs : GetLatest(c)
    \/ \E c \in CustomerIdInputs, ok \in BOOLEAN : Login(c, ok)
    \/ \E id \in AssessmentIdInputs, st \in StatusInputs : UpdateStatus(id, st)

Spec == Init /\ [][Next]_vars

\* The submit handler alone, over every score, for one registered customer
\* and for a customerId that references none.
NextScore ==
    \/ \E c \in {1} \cup (CustomerIdInputs \ Customers), s \in AllScores :
          SubmitCreate(c, s)
    \/ \E r \in inflight : SubmitTouch(r)

SpecScore == Init /\ [][NextScore]_vars

\* A store that already holds two submitted assessments, both of customer 1
\* and of one millisecond.
InitThread ==
    /\ assessments = [i \in {1, 2} |->
            [id |-> i, customerId |-> 1, score |-> 700, status |-> Decide(700),
             createdAt |-> 1]]
    /\ messages = <<>>
    /\ documents = <<>>
    /\ lastAccessed = [c \in Customers |-> IF c = 1 THEN 1 ELSE 0]
    /\ inflight = {}
    /\ last = Response("none", 0, 0, FALSE, <<>>)
    /\ reply = NoReply
    /\ questions = <<>>

\* The follow-up thread of the assessments: messages, document requests,
\* uploads and the message read.
NextThread ==
    \/ \E id \in ThreadIdInputs : RequestDocs(id, <<"pan">>)
    \/ \E id \in ThreadIdInputs, sn \in SenderInputs, tx \in TextInputs :
          PostMessage(id, sn, tx)
    \/ \E f \in BOOLEAN, id \in {0} \cup ThreadIdInputs,
          n \in FileNames, dt \in DocTypeInputs : UploadCreate(f, id, n, dt)
    \/ \E r \in inflight : UploadMessage(r)
    \/ \E id \in ThreadIdInputs : GetMessages(id)

SpecThread == InitThread /\ [][NextThread]_vars

\* The thread's writes with the two reads that embed the thread in the
\* customer's latest assessment.
NextLatest ==
    \/ \E id \in ThreadIdInputs : RequestDocs(id, <<"pan">>)
    \/ \E id \in ThreadIdInputs, sn \in SenderInputs, tx \in TextInputs :
          PostMessage(id, sn, tx)
    \/ \E f \in BOOLEAN, id \in {0} \cup ThreadIdInputs, n \in FileNames :
          UploadCreate(f, id, n, "pan")
    \/ \E r \in inflight : UploadMessage(r)
    \/ \E c \in CustomerIdInputs : GetLatest(c)
    \/ \E c \in CustomerIdInputs, ok \in BOOLEAN : Login(c, ok)

SpecLatest == InitThread /\ [][NextLatest]_vars

\* Every handler that writes, together: one customer's submits, the
\* reviewer's overrides, and the thread of the first assessment.
NextFrame ==
    \/ \E c \in {1} \cup (CustomerIdInputs \ Customers), s \in {700} :
          SubmitCreate(c, s)
    \/ \E r \in inflight : SubmitTouch(r)
    \/ \E id \in AssessmentIdInputs : UpdateStatus(id, "Manual Review")
    \/ \E id \in {1, MaxAssessments + 1} : RequestDocs(id, <<"pan", "salary">>)
    \/ \E id \in {1, MaxAssessments + 1}, sn \in SenderInputs, tx \in TextInputs :
          PostMessage(id, sn, tx)
    \/ \E f \in BOOLEAN, id \in {0, 1, MaxAssessments + 1}, n \in FileNames :
          UploadCreate(f, id, n, "pan")
    \/ \E r \in inflight : UploadMessage(r)

SpecFrame == Init /\ [][NextFrame]_vars

\* A generate-questions call waiting on the completion service, for every
\* reply the service may give.
InitGen ==
    /\ assessments = <<>>
    /\ messages = <<>>
    /\ documents = <<>>
    /\ lastAccessed = [c \in Customers |-> 0]
    /\ inflight = {}
    /\ last = Response("generate", 0, 0, FALSE, <<>>)
    /\ reply \in Replies
    /\ questions = <<>>

NextGen == GenerateFinish

SpecGen == InitGen /\ [][NextGen]_vars

(* ------------------------------- claims ------------------------------- *)

\* C1: the status submit persists is Approved from 700 up, Manual Review from
\* 500 to 699 and Rejected below 500, for every score a request carries,
\* negative and far above range included (checked under SpecScore, where no
\* reviewer overrides a status).
C1_Thresholds ==
    \A i \in Ids(assessments) :
        LET a == assessments[i] IN
        /\ a.score >= 700 => a.status = "Approved"
        /\ (a.score >= 500 /\ a.score < 700) => a.status = "Manual Review"
        /\ a.score < 500 => a.status = "Rejected"

\* Two submits answered, at the two sides of the upper edge.
C1_Witness ==
    /\ last.op = "submit" /\ last.status = 201
    /\ \E i, j \in Ids(assessments) :
        /\ assessments[i].score = 699 /\ assessments[i].status = "Manual Review"
        /\ assessments[j].score = 700 /\ assessments[j].status = "Approved"

\* C2: no state shows an Assessment row while its owner's lastAccessed still
\* precedes the row, i.e. lacks the update of the submit that made the row.
C2_Atomic ==
    \A i \in Ids(assessments) :
        lastAccessed[assessments[i].customerId] >= assessments[i].createdAt

\* C3: a submit whose customerId references no customer answers NotFound
\* (404) and leaves the Assessment table and every lastAccessed as they were.
C3_NotFound ==
    [][(last'.op = "submit" /\ last'.id \notin Customers)
        => /\ last'.status = 404
           /\ assessments' = assessments
           /\ lastAccessed' = lastAccessed]_vars

\* C4: once a submit for c has answered 201, with no later row of c and no
\* other submit of c still running, every result latest-assessment may give
\* for c is the row that submit made; and the submit left c's lastAccessed
\* above its value when the call began.
C4_LatestAfterSubmit ==
    /\ [](( /\ last.op = "submit" /\ last.status = 201
            /\ \A j \in Ids(assessments) :
                  assessments[j].customerId = last.id => j <= last.body[1]
            /\ \A r \in inflight :
                  r.op = "submit" => assessments[r.id].customerId # last.id)
           => LatestResults(last.id) = {last.body})
    /\ [][\A r \in inflight :
            (r.op = "submit" /\ r \notin inflight' /\ last'.status = 201)
            => lastAccessed'[last'.id] > r.before]_vars

\* C5: the body of a message read of assessment a lists every message of a
\* once, and nothing else, in non-decreasing createdAt order; the read always
\* answers 200 with a list, the empty one when a has no message.
C5_MessagesOrdered ==
    last.op = "getMessages" =>
        /\ last.status = 200
        /\ {last.body[i] : i \in DOMAIN last.body}
             = {m.id : m \in {x \in Range(messages) : x.assessmentId = last.id}}
        /\ \A i, j \in DOMAIN last.body :
             i < j => /\ last.body[i] # last.body[j]
                      /\ messages[last.body[i]].createdAt
                           <= messages[last.body[j]].createdAt

\* A read that returned two messages of different senders and different
\* creation times.
C5_Witness ==
    /\ last.op = "getMessages" /\ Len(last.body) = 2
    /\ messages[last.body[1]].createdAt < messages[last.body[2]].createdAt
    /\ messages[last.body[1]].sender # messages[last.body[2]].sender

\* C6: an upload step whose request lacks the file or the assessment id
\* answers 400 and leaves the Document and Message tables as they were.
C6_UploadValidated ==
    [][(last'.op = "upload" /\ (~last'.file \/ last'.id = 0))
        => /\ last'.status = 400
           /\ documents' = documents
           /\ messages' = messages]_vars

\* A rejected upload without a file, in a store that holds a document and
\* messages.
C6_Witness ==
    /\ last.op = "upload" /\ last.status = 400 /\ ~last.file
    /\ Len(documents) > 0 /\ Len(messages) > 0

\* C7: every Document row whose upload has ended has its System message on
\* the same assessment.
C7_UploadHasMessage ==
    \A d \in Range(documents) :
        (\A r \in PendingUploads : r.id # d.id)
        => \E m \in Range(messages) :
             /\ m.assessmentId = d.assessmentId
             /\ m.sender = "System"
             /\ m.text = UploadText(d.originalName, d.docType)

\* C8: a status update of an existing id that answers 200 has set exactly
\* that row's status to the status sent; one of an id that does not exist
\* answers NotFound (404) and changes nothing.
C8_UpdateStatus ==
    [][last'.op = "updateStatus"
        => IF last'.id \in Ids(assessments)
           THEN last'.status = 200
                => assessments' = [assessments EXCEPT
                                     ![last'.id].status = last'.arg[1]]
           ELSE last'.status = 404 /\ assessments' = assessments]_vars

\* C9: a step changes the status of an existing assessment only when it is a
\* status update of that assessment; a new assessment starts with the status
\* the thresholds give its score; and a document request that answers 201
\* appends one message of its assessment, tagged document_request and carrying
\* the requested types, and leaves the Assessment table alone.
C9_OnlyUpdateStatus ==
    [][/\ \A i \in Ids(assessments) :
            assessments'[i].status # assessments[i].status
            => (last'.op = "updateStatus" /\ last'.id = i)
       /\ \A i \in Ids(assessments') \ Ids(assessments) :
            assessments'[i].status =
                (IF assessments'[i].score >= 700 THEN "Approved"
                 ELSE IF assessments'[i].score >= 500 THEN "Manual Review"
                 ELSE "Rejected")
       /\ (last'.op = "requestDocs" /\ last'.status = 201)
            => /\ Len(messages') = Len(messages) + 1
               /\ SubSeq(messages', 1, Len(messages)) = messages
               /\ messages'[Len(messages')].assessmentId = last'.id
               /\ Head(messages'[Len(messages')].text) = "document_request"
               /\ Tail(messages'[Len(messages')].text) = last'.arg
               /\ assessments' = assessments
       /\ last'.op \in {"upload", "postMessage", "requestDocs", "submit"}
            => \A i \in Ids(assessments) : assessments'[i] = assessments[i]]_vars

\* A document request and an upload have been recorded on the first
\* assessment and a second submit has been answered, and the first
\* assessment still has the status its score gave it.
C9_Witness ==
    /\ Len(assessments) = 2
    /\ last.op = "submit" /\ last.status = 201 /\ last.body = <<2>>
    /\ assessments[1].status = "Approved"
    /\ \E m \in Range(messages) : m.assessmentId = 1 /\ m.sender = "Bank Manager"
    /\ \E m \in Range(messages) : m.assessmentId = 1 /\ m.sender = "System"

\* C10: when generate-questions answers 200, the array it sends has one item
\* per element of the service's array, in the service's order, and the item
\* at position i has the id dynamic_question_i.
C10_Renumbered ==
    (last.op = "generate" /\ last.status = 200)
    => LET items == JsonParse(Substring(reply.text, IndexOf(reply.text, "["),
                                        LastIndexOf(reply.text, "]") + 1)).items
       IN /\ Len(questions) = Len(items)
          /\ \A i \in DOMAIN questions :
                /\ questions[i].id = "dynamic_question_" \o ToString(i)
                /\ questions[i].question = items[i].question

\* C11: when the service's text has no "[" or no "]", or the text from its
\* first "[" to its last "]" is not a well-formed JSON array, the handler
\* answers with its failure that is not the rate-limit one and sends no
\* question.
C11_FormatFailure ==
    (/\ last.op = "generate" /\ last.status # 0
     /\ reply.kind = "text"
     /\ LET first == IndexOf(reply.text, "[")
            lastClose == LastIndexOf(reply.text, "]")
        IN \/ first = -1
           \/ lastClose = -1
           \/ JsonParse(SubSeq(reply.text, first + 1, lastClose + 1)).kind
                # "array")
    => /\ last.status = 500
       /\ questions = <<>>

\* C12: a failed generate-questions call answers 429 exactly when the service
\* threw its quota error, 500 for every other failure of the service, and a
\* status that is neither of the two when the service answered and its text
\* could not be used.
C12_ErrorKinds ==
    (last.op = "generate" /\ last.status \notin {0, 200})
    => IF reply.kind = "error"
       THEN last.status = (IF reply.status = 429 THEN 429 ELSE 500)
       ELSE last.status \notin {429, 500}

\* C13: for a text that holds a "[" and a "]", the text the handler gave the
\* parser is the stretch of the reply from its first "[" to its last "]",
\* both included (nothing of the reply when the last "]" stands before the
\* first "[").
C13_PayloadIsBracketSpan ==
    (/\ last.op = "generate" /\ last.status # 0
     /\ reply.kind = "text"
     /\ \E i \in DOMAIN reply.text : reply.text[i] = "["
     /\ \E i \in DOMAIN reply.text : reply.text[i] = "]")
    => LET first == CHOOSE i \in DOMAIN reply.text :
                        /\ reply.text[i] = "["
                        /\ \A j \in 1..(i - 1) : reply.text[j] # "["
           lastClose == CHOOSE i \in DOMAIN reply.text :
                        /\ reply.text[i] = "]"
                        /\ \A j \in (i + 1)..Len(reply.text) : reply.text[j] # "]"
       IN last.arg = [k \in 1..(lastClose - first + 1) |-> reply.text[first + k - 1]]

\* C14: the assessment in a 200 answer of latest-assessment or login for
\* customer c is the one of c with the greatest createdAt, among those of
\* that createdAt the one with the greatest id; the answer holds none (null)
\* when c has no assessment.
C14_LatestIsMaxWithTieBreak ==
    (last.op \in {"getLatest", "login"} /\ last.status = 200)
    => LET rows == {a \in Range(assessments) : a.customerId = last.id} IN
       IF rows = {} THEN last.body = <<>>
       ELSE \E a \in rows :
               /\ last.body = <<a.id>>
               /\ \A b \in rows :
                    \/ b.createdAt < a.createdAt
                    \/ (b.createdAt = a.createdAt /\ b.id <= a.id)

\* C15: the messages embedded in the assessment that latest-assessment
\* answers with are in non-decreasing createdAt order.
C15_EmbeddedMessagesOrdered ==
    (last.op = "getLatest" /\ last.status = 200)
    => \A i, j \in DOMAIN last.included :
          i < j => messages[last.included[i]].createdAt
                     <= messages[last.included[j]].createdAt

====
